---- MODULE Spec2Model ----
(***************************************************************************)
(* Model of the gestational age calculator (src/src/main.rs).              *)
(*                                                                         *)
(* A NaiveDate is modelled as its day number (days since 1970-01-01 in the *)
(* proleptic Gregorian calendar); year/month/day are recovered with the    *)
(* usual civil-calendar conversion.  i32 values keep their 32-bit width:   *)
(* an overflowing operation panics in a build with overflow checks and     *)
(* wraps in a build without them, and the build is fixed in the initial    *)
(* state.  A text is a sequence of one-character strings.                  *)
(***************************************************************************)
EXTENDS Integers, Sequences, FiniteSets, TLC

VARIABLES
    birth_date_str,         \* AgeCalculatorApp.birth_date_str
    gestational_weeks_str,  \* AgeCalculatorApp.gestational_weeks_str
    gestational_days_str,   \* AgeCalculatorApp.gestational_days_str
    result_text,            \* AgeCalculatorApp.result_text  (Option<String>)
    error_message,          \* AgeCalculatorApp.error_message (Option<String>)
    clipboard,              \* AgeCalculatorApp.clipboard (Option; Some holds the clipboard's text)
    overflow_checks,        \* the build: TRUE = overflow checks on (debug), FALSE = wrapping (release)
    panicked,               \* the process has panicked
    birthdate,              \* calculate(): parsed birth date          (Option)
    today,                  \* calculate(): Utc::now().date_naive()    (Option)
    gestational_weeks,      \* calculate(): parsed weeks               (Option)
    gestational_days,       \* calculate(): parsed days                (Option)
    chronological_age,      \* calculate(): result of calculate_chronological_age (Option)
    corrected_age           \* calculate(): result of calculate_corrected_age     (Option)

app_vars  == <<birth_date_str, gestational_weeks_str, gestational_days_str,
               result_text, error_message, clipboard>>
call_vars == <<birthdate, today, gestational_weeks, gestational_days,
               chronological_age, corrected_age>>
vars      == <<app_vars, call_vars, overflow_checks, panicked>>

----------------------------------------------------------------------------
(* Option<T> *)

None == <<>>

Some(x) == <<x>>

IsSome(o) == o # None

Unwrap(o) == o[1]

(* The outcome of a call that may panic. *)
Panic == [panic |-> TRUE]

Return(v) == [panic |-> FALSE, value |-> v]

----------------------------------------------------------------------------
(* i32 arithmetic *)

I32_MAX == 2147483647

I32_MIN == -I32_MAX - 1

AddOverflows(a, b) ==
    \/ b > 0 /\ a > I32_MAX - b
    \/ b < 0 /\ a < I32_MIN - b

(* a + b modulo 2^32, computed without leaving the 32-bit range *)
WrappingAdd(a, b) ==
    IF b > 0 /\ a > I32_MAX - b THEN (a + I32_MIN) + (b + I32_MIN)
    ELSE IF b < 0 /\ a < I32_MIN - b THEN (a - I32_MIN) + (b - I32_MIN)
    ELSE a + b

SubOverflows(a, b) ==
    \/ b < 0 /\ a > I32_MAX + b
    \/ b > 0 /\ a < I32_MIN + b

(* a - b modulo 2^32 *)
WrappingSub(a, b) ==
    IF b < 0 /\ a > I32_MAX + b THEN (a + I32_MIN) - (b - I32_MIN)
    ELSE IF b > 0 /\ a < I32_MIN + b THEN (a - I32_MIN) - (b + I32_MIN)
    ELSE a - b

Mul7Overflows(a) == a > I32_MAX \div 7 \/ a < -(I32_MAX \div 7)

(* a * 7 modulo 2^32, as a + a + a + a + a + a + a regrouped *)
Times7From4(a, a2, a4) == WrappingAdd(WrappingAdd(a4, a2), a)

Times7From2(a, a2) == Times7From4(a, a2, WrappingAdd(a2, a2))

WrappingMul7(a) == Times7From2(a, WrappingAdd(a, a))

I32Mul7(a, checks) ==
    IF checks /\ Mul7Overflows(a) THEN Panic ELSE Return(WrappingMul7(a))

I32Add(a, b, checks) ==
    IF checks /\ AddOverflows(a, b) THEN Panic ELSE Return(WrappingAdd(a, b))

I32Sub(a, b, checks) ==
    IF checks /\ SubOverflows(a, b) THEN Panic ELSE Return(WrappingSub(a, b))

(* A division that rounds toward minus infinity where Rust's truncates *)
FloorDiv(a, b) == a \div b

(* Rust's / and % on integers: the quotient truncates toward zero and the  *)
(* remainder takes the sign of the dividend (b > 0 here).                  *)
TruncDiv(a, b) == IF a >= 0 THEN a \div b ELSE -((-a) \div b)

Rem(a, b) == a - b * TruncDiv(a, b)

Max0(a) == IF a < 0 THEN 0 ELSE a

(* (days as f64 / 30.4375).floor() as i64.  30.4375 = 487/16 is exact in   *)
(* f64 and so is every day count; the rounded quotient and the exact one   *)
(* 16*days/487 have the same floor (a non-integer quotient is at least     *)
(* 1/487 away from an integer, the rounding error below 2^-25), and the    *)
(* floor is the greatest integer not above the quotient.                   *)
FloorMonths(days) == (days * 16) \div 487

----------------------------------------------------------------------------
(* chrono::NaiveDate *)

IsLeapYear(y) == y % 4 = 0 /\ (y % 100 # 0 \/ y % 400 = 0)

DaysInMonth(y, m) ==
    IF m = 2 THEN (IF IsLeapYear(y) THEN 29 ELSE 28)
    ELSE IF m \in {4, 6, 9, 11} THEN 30 ELSE 31

(* NaiveDate::from_ymd: the day number of a valid calendar date *)
DaysFromCivil(y, m, d) ==
    LET yy  == IF m <= 2 THEN y - 1 ELSE y
        era == yy \div 400
        yoe == yy - era * 400
        mp  == (m + 9) % 12
        doy == (153 * mp + 2) \div 5 + d - 1
        doe == yoe * 365 + yoe \div 4 - yoe \div 100 + doy
    IN  era * 146097 + doe - 719468

(* The calendar date of a day number, one step of the conversion at a time *)
CivilYmd(y, m, d) ==
    [year |-> IF m <= 2 THEN y + 1 ELSE y, month |-> m, day |-> d]

CivilMp(era, yoe, doy, mp) ==
    CivilYmd(yoe + era * 400,
             IF mp < 10 THEN mp + 3 ELSE mp - 9,
             doy - (153 * mp + 2) \div 5 + 1)

CivilDoy(era, yoe, doy) == CivilMp(era, yoe, doy, (5 * doy + 2) \div 153)

CivilYoe(era, doe, yoe) ==
    CivilDoy(era, yoe, doe - (365 * yoe + yoe \div 4 - yoe \div 100))

CivilDoe(era, doe) ==
    CivilYoe(era, doe,
             (doe - doe \div 1460 + doe \div 36524 - doe \div 146096) \div 365)

CivilEra(zz, era) == CivilDoe(era, zz - era * 146097)

CivilFromDays(z) == CivilEra(z + 719468, (z + 719468) \div 146097)

(* Datelike::year, month, day *)
year(date) == CivilFromDays(date).year

month(date) == CivilFromDays(date).month

day(date) == CivilFromDays(date).day

(* NaiveDate::MAX, the last date chrono represents *)
MaxDate == DaysFromCivil(262142, 12, 31)

(* The last day of the date's own month, where the code takes the day    *)
(* before the first of the month                                         *)
last_of_same_month(date) ==
    (date - (day(date) - 1)) + (DaysInMonth(year(date), month(date)) - 1)

(* today.with_day(1).unwrap() - Duration::days(1) *)
prev_month(date) == (date - (day(date) - 1)) - 1

(* a.signed_duration_since(b).num_days() *)
signed_duration_days(a, b) == a - b

----------------------------------------------------------------------------
(* calculate_chronological_age *)

(* lines 340-356: the month borrow and the totals *)
borrow_month(years, months, days, total_days) ==
    [years        |-> IF months < 0 THEN years - 1 ELSE years,
     months       |-> IF months < 0 THEN months + 12 ELSE months,
     days         |-> days,
     total_weeks  |-> TruncDiv(total_days, 7),
     total_months |-> FloorMonths(total_days)]

(* lines 334-339: the day borrow; prev_month_day is prev_month.day() *)
borrow_day(years, months, days, prev_month_day, total_days) ==
    IF days < 0
    THEN borrow_month(years, months - 1, days + prev_month_day, total_days)
    ELSE borrow_month(years, months, days, total_days)

(* lines 329-331: the component-wise differences *)
component_diff(b, t, prev_month_day, total_days) ==
    borrow_day(t.year - b.year, t.month - b.month, t.day - b.day,
               prev_month_day, total_days)

calculate_chronological_age(bd, td) ==
    component_diff(CivilFromDays(bd), CivilFromDays(td), day(prev_month(td)),
                   signed_duration_days(td, bd))

----------------------------------------------------------------------------
(* calculate_corrected_age *)

full_term_days == 40 * 7

(* line 370: prematurity_days = full_term_days - total_gestational_days *)
prematurity_sub(t, checks) ==
    IF t.panic THEN Panic ELSE I32Sub(full_term_days, t.value, checks)

(* line 366: ... + gestational_days *)
gestational_add(m, gd, checks) ==
    IF m.panic THEN Panic ELSE I32Add(m.value, gd, checks)

(* lines 366-370: total_gestational_days and prematurity_days, in i32 *)
prematurity_days(gw, gd, checks) ==
    prematurity_sub(gestational_add(I32Mul7(gw, checks), gd, checks), checks)

full_term_record(chronological, total_days) ==
    [years        |-> chronological.years,
     months       |-> chronological.months,
     days         |-> chronological.days,
     weeks        |-> chronological.total_weeks,
     days_in_week |-> Rem(total_days, 7),
     total_months |-> chronological.total_months]

(* the full-term / post-term branch, lines 373-384 *)
full_term_age(bd, td) ==
    full_term_record(calculate_chronological_age(bd, td),
                     signed_duration_days(td, bd))

preterm_record(corrected_age_as_chrono, corrected_total_days) ==
    [years        |-> corrected_age_as_chrono.years,
     months       |-> corrected_age_as_chrono.months,
     days         |-> corrected_age_as_chrono.days,
     weeks        |-> TruncDiv(corrected_total_days, 7),
     days_in_week |-> Rem(corrected_total_days, 7),
     total_months |-> FloorMonths(corrected_total_days)]

(* the preterm branch after the date addition, lines 390-406 *)
preterm_age(corrected_birthdate, td) ==
    preterm_record(calculate_chronological_age(corrected_birthdate, td),
                   Max0(signed_duration_days(td, corrected_birthdate)))

(* NaiveDate + Duration::days(n), n > 0: panics when the sum is not a date *)
date_add_days(date, n) ==
    IF n > MaxDate - date THEN Panic ELSE Return(date + n)

(* line 388 onward, given the outcome of the date addition *)
preterm_branch(corrected_birthdate, td) ==
    IF corrected_birthdate.panic THEN Panic
    ELSE Return(preterm_age(corrected_birthdate.value, td))

(* line 373 onward, given the outcome of the i32 arithmetic *)
prematurity_branch(bd, td, p) ==
    IF p.panic THEN Panic
    ELSE IF p.value <= 0 THEN Return(full_term_age(bd, td))
    ELSE preterm_branch(date_add_days(bd, p.value), td)

calculate_corrected_age(bd, td, gw, gd, checks) ==
    prematurity_branch(bd, td, prematurity_days(gw, gd, checks))

----------------------------------------------------------------------------
(* Inputs of the pure functions: bounded sets of dates and gestational ages *)

BirthSpan == 12

TodaySpan == 30

BirthDates ==
    {DaysFromCivil(2020, 2, 20) + i : i \in 0..(BirthSpan - 1)}
        \cup {DaysFromCivil(2023, 1, 31), DaysFromCivil(2024, 1, 1)}

TodayDates ==
    {DaysFromCivil(2020, 2, 25) + i : i \in 0..(TodaySpan - 1)}
        \cup {DaysFromCivil(2021, 2, 28), DaysFromCivil(2021, 3, 1),
              DaysFromCivil(2023, 3, 1), DaysFromCivil(2023, 3, 15),
              DaysFromCivil(2024, 6, 1)}

(* the largest i32 whose product by 7 is an i32 *)
Mul7Limit == I32_MAX \div 7

GestWeeks ==
    {I32_MIN, -(Mul7Limit + 41), -(Mul7Limit + 1), -100000000, -1, 0,
     32, 36, 39, 40, 41,
     Mul7Limit, Mul7Limit + 1, Mul7Limit + 41, 2 * Mul7Limit + 1, I32_MAX}

GestDays == {-1, 0, 3, 6, 10}

----------------------------------------------------------------------------
(* The pure functions applied to drawn inputs, in the order of lines 142-144 *)

CoreInit ==
    /\ birth_date_str = <<>>
    /\ gestational_weeks_str = <<>>
    /\ gestational_days_str = <<>>
    /\ result_text = None
    /\ error_message = None
    /\ clipboard = None
    /\ overflow_checks \in BOOLEAN
    /\ panicked = FALSE
    /\ birthdate \in {Some(d) : d \in BirthDates}
    /\ today \in {Some(d) : d \in TodayDates}
    /\ gestational_weeks \in {Some(w) : w \in GestWeeks}
    /\ gestational_days \in {Some(d) : d \in GestDays}
    /\ chronological_age = None
    /\ corrected_age = None

CallChronologicalAge ==
    /\ ~panicked
    /\ chronological_age = None
    /\ chronological_age' =
           Some(calculate_chronological_age(Unwrap(birthdate), Unwrap(today)))
    /\ UNCHANGED <<app_vars, overflow_checks, panicked, birthdate, today,
                   gestational_weeks, gestational_days, corrected_age>>

CallCorrectedAge ==
    /\ ~panicked
    /\ IsSome(chronological_age)
    /\ corrected_age = None
    /\ LET r == calculate_corrected_age(Unwrap(birthdate), Unwrap(today),
                    Unwrap(gestational_weeks), Unwrap(gestational_days),
                    overflow_checks)
       IN  /\ panicked' = r.panic
           /\ corrected_age' = IF r.panic THEN None ELSE Some(r.value)
    /\ UNCHANGED <<app_vars, overflow_checks, birthdate, today,
                   gestational_weeks, gestational_days, chronological_age>>

CoreNext == CallChronologicalAge \/ CallCorrectedAge

CoreSpec == CoreInit /\ [][CoreNext]_vars

----------------------------------------------------------------------------
(* Texts.  A text is a sequence of pieces; what the user types and what an *)
(* integer formats to are sequences of one-character pieces.               *)

DigitChars == <<"0", "1", "2", "3", "4", "5", "6", "7", "8", "9">>

IsDigit(c) == \E i \in 1..10 : DigitChars[i] = c

DigitValue(c) == (CHOOSE i \in 1..10 : DigitChars[i] = c) - 1

RECURSIVE NatText(_)
(* the decimal digits of n >= 0 *)
NatText(n) ==
    IF n < 10 THEN <<DigitChars[n + 1]>>
    ELSE NatText(n \div 10) \o <<DigitChars[(n % 10) + 1]>>

(* the last decimal digit of -n, n < 0 *)
NegLastDigit(n) == (10 - (n % 10)) % 10

RECURSIVE NegText(_)
(* the decimal digits of -n, n < 0, without negating n *)
NegText(n) ==
    IF n > -10 THEN <<DigitChars[1 - n]>>
    ELSE NegText((n + NegLastDigit(n)) \div 10)
             \o <<DigitChars[NegLastDigit(n) + 1]>>

(* Display of an integer, as format!("{}") writes it *)
DecimalText(n) == IF n < 0 THEN <<"-">> \o NegText(n) ELSE NatText(n)

RECURSIVE AccI32(_, _, _)
RECURSIVE AccStep(_, _, _, _)
(* i32::from_str, one digit: the accumulator is checked before it is      *)
(* multiplied, a negative number being accumulated downward               *)
AccStep(rest, acc, neg, dg) ==
    IF neg
    THEN IF acc < (I32_MIN + dg + 9) \div 10 THEN None
         ELSE AccI32(rest, acc * 10 - dg, neg)
    ELSE IF acc > (I32_MAX - dg) \div 10 THEN None
         ELSE AccI32(rest, acc * 10 + dg, neg)

AccI32(s, acc, neg) ==
    IF s = <<>> THEN Some(acc)
    ELSE IF ~IsDigit(s[1]) THEN None
    ELSE AccStep(Tail(s), acc, neg, DigitValue(s[1]))

(* i32::from_str: an optional sign, then at least one digit and only      *)
(* digits, the value within i32                                           *)
ParseI32(s) ==
    IF s = <<>> THEN None
    ELSE IF s[1] \in {"+", "-"}
         THEN (IF Len(s) = 1 THEN None ELSE AccI32(Tail(s), 0, s[1] = "-"))
         ELSE AccI32(s, 0, FALSE)

RECURSIVE DigitPrefixLen(_, _)
(* how many of the first `width` pieces of s are digits *)
DigitPrefixLen(s, width) ==
    IF width = 0 \/ s = <<>> THEN 0
    ELSE IF ~IsDigit(s[1]) THEN 0
    ELSE 1 + DigitPrefixLen(Tail(s), width - 1)

RECURSIVE DecimalValue(_)
DecimalValue(digits) ==
    IF digits = <<>> THEN 0
    ELSE DecimalValue(SubSeq(digits, 1, Len(digits) - 1)) * 10
             + DigitValue(digits[Len(digits)])

scan_take(s, k) ==
    IF k = 0 THEN None
    ELSE Some([value |-> DecimalValue(SubSeq(s, 1, k)),
               rest  |-> SubSeq(s, k + 1, Len(s))])

(* a numeric item of the format: one to `width` digits *)
scan_number(s, width) == scan_take(s, DigitPrefixLen(s, width))

(* the literal "/" of the format *)
scan_literal(s) ==
    IF s = <<>> THEN None
    ELSE IF s[1] = "/" THEN Some(Tail(s)) ELSE None

(* NaiveDate::from_ymd_opt *)
from_ymd_opt(y, m, d) ==
    IF m >= 1 /\ m <= 12 /\ d >= 1 /\ d <= DaysInMonth(y, m)
    THEN Some(DaysFromCivil(y, m, d)) ELSE None

parse_year(d, m, y) ==
    IF y = None THEN None
    ELSE IF Unwrap(y).rest # <<>> THEN None
    ELSE from_ymd_opt(Unwrap(y).value, m, d)

parse_slash2(d, m, r) ==
    IF r = None THEN None ELSE parse_year(d, m, scan_number(Unwrap(r), 4))

parse_month(d, m) ==
    IF m = None THEN None
    ELSE parse_slash2(d, Unwrap(m).value, scan_literal(Unwrap(m).rest))

parse_slash1(d, r) ==
    IF r = None THEN None ELSE parse_month(d, scan_number(Unwrap(r), 2))

parse_day(d) ==
    IF d = None THEN None
    ELSE parse_slash1(Unwrap(d).value, scan_literal(Unwrap(d).rest))

(* NaiveDate::parse_from_str(s, "%d/%m/%Y") on texts of digits, "/", "-"  *)
(* and letters: day and month of one or two digits, an unsigned year of   *)
(* one to four, nothing after it, and the three a date of the calendar    *)
parse_from_str(s) == parse_day(scan_number(s, 2))

----------------------------------------------------------------------------
(* AgeCalculatorApp::calculate *)

InvalidDate == <<"Formato de data inválido. Use DD/MM/AAAA.">>

InvalidWeeks == <<"Idade gestacional deve ser um número.">>

InvalidDays == <<"Dias na semana de nascimento devem ser um número.">>

(* the format! of lines 147-157 *)
format_result(chronological, corrected) ==
    <<"Idade Cronológica: ">> \o DecimalText(chronological.total_weeks)
        \o <<" semanas (">> \o DecimalText(chronological.total_months)
        \o <<" meses)\nIdade Corrigida: ">> \o DecimalText(corrected.weeks)
        \o <<" semanas (">> \o DecimalText(corrected.total_months)
        \o <<" meses) e ">> \o DecimalText(corrected.days_in_week)
        \o <<" dias\nIdade Corrigida (Anos): ">> \o DecimalText(corrected.years)
        \o <<" anos, ">> \o DecimalText(corrected.months)
        \o <<" meses e ">> \o DecimalText(corrected.days)
        \o <<" dias">>

(* What a call of calculate leaves: the two fields it writes, whether it  *)
(* panicked, and its locals.                                              *)
Outcome(result, error, panic, bd, gw, gd, td, chronological, corrected) ==
    [result_text |-> result, error_message |-> error, panicked |-> panic,
     birthdate |-> bd, gestational_weeks |-> gw, gestational_days |-> gd,
     today |-> td, chronological_age |-> chronological,
     corrected_age |-> corrected]

(* lines 143-157 *)
calculate_format(bd, gw, gd, td, chronological, corrected) ==
    IF corrected.panic
    THEN Outcome(None, None, TRUE, Some(bd), Some(gw), Some(gd), Some(td),
                 Some(chronological), None)
    ELSE Outcome(Some(format_result(chronological, corrected.value)), None,
                 FALSE, Some(bd), Some(gw), Some(gd), Some(td),
                 Some(chronological), Some(corrected.value))

(* lines 140-144 *)
calculate_ages(bd, gw, gd, td, checks) ==
    calculate_format(bd, gw, gd, td, calculate_chronological_age(bd, td),
                     calculate_corrected_age(bd, td, gw, gd, checks))

(* lines 130-137 *)
calculate_days(bd, gw, gd, td, checks) ==
    IF gd = None
    THEN Outcome(None, Some(InvalidDays), FALSE, Some(bd), Some(gw), None,
                 None, None, None)
    ELSE calculate_ages(bd, gw, Unwrap(gd), td, checks)

(* lines 122-128 *)
calculate_weeks(bd, gw, days_str, td, checks) ==
    IF gw = None
    THEN Outcome(None, Some(InvalidWeeks), FALSE, Some(bd), None, None,
                 None, None, None)
    ELSE calculate_days(bd, Unwrap(gw), ParseI32(days_str), td, checks)

(* lines 113-120 *)
calculate_date(bd, weeks_str, days_str, td, checks) ==
    IF bd = None
    THEN Outcome(None, Some(InvalidDate), FALSE, None, None, None,
                 None, None, None)
    ELSE calculate_weeks(Unwrap(bd), ParseI32(weeks_str), days_str, td, checks)

(* calculate with the weeks field validated before the birth date *)
calculate_weeks_first(date_str, weeks_str, days_str, td, checks) ==
    IF ParseI32(weeks_str) = None
    THEN Outcome(None, Some(InvalidWeeks), FALSE, None, None, None,
                 None, None, None)
    ELSE calculate_date(parse_from_str(date_str), weeks_str, days_str, td, checks)

(* calculate(&mut self), lines 107-158; td is what Utc::now() gives *)
calculate(date_str, weeks_str, days_str, td, checks) ==
    calculate_date(parse_from_str(date_str), weeks_str, days_str, td, checks)

----------------------------------------------------------------------------
(* The application: what the user types, the clock, the handlers *)

Pad2(n) == IF n < 10 THEN <<"0">> \o NatText(n) ELSE NatText(n)

(* a date typed as DD/MM/YYYY *)
DateText(y, m, d) == Pad2(d) \o <<"/">> \o Pad2(m) \o <<"/">> \o NatText(y)

BirthTexts ==
    {DateText(2020, 2, 29), DateText(2023, 1, 31),
     <<>>, DateText(2023, 2, 31), <<"2", "0", "2", "3", "-", "0", "1", "-", "3", "1">>}

WeeksTexts ==
    {DecimalText(32), DecimalText(2 * Mul7Limit + 1), DecimalText(-100000000),
     <<>>, <<"4", "0", "s">>, NatText(I32_MAX \div 10) \o <<"8">>}

DaysTexts == {DecimalText(0), <<>>, <<"x">>}

Clock == {DaysFromCivil(2021, 3, 1), DaysFromCivil(2020, 3, 1)}

CopyErrors == {"ClipboardOccupied"}

Init ==
    /\ birth_date_str = <<>>
    /\ gestational_weeks_str = <<>>
    /\ gestational_days_str = <<>>
    /\ result_text = None
    /\ error_message = None
    /\ clipboard \in {None, Some(<<>>)}
    /\ overflow_checks \in BOOLEAN
    /\ panicked = FALSE
    /\ birthdate = None
    /\ today = None
    /\ gestational_weeks = None
    /\ gestational_days = None
    /\ chronological_age = None
    /\ corrected_age = None

(* the three TextEdit widgets, lines 211-228 *)
EditBirthDate ==
    /\ ~panicked
    /\ \E s \in BirthTexts : birth_date_str' = s
    /\ UNCHANGED <<gestational_weeks_str, gestational_days_str, result_text,
                   error_message, clipboard, call_vars, overflow_checks, panicked>>

EditWeeks ==
    /\ ~panicked
    /\ \E s \in WeeksTexts : gestational_weeks_str' = s
    /\ UNCHANGED <<birth_date_str, gestational_days_str, result_text,
                   error_message, clipboard, call_vars, overflow_checks, panicked>>

EditDays ==
    /\ ~panicked
    /\ \E s \in DaysTexts : gestational_days_str' = s
    /\ UNCHANGED <<birth_date_str, gestational_weeks_str, result_text,
                   error_message, clipboard, call_vars, overflow_checks, panicked>>

CalculateReturns(o) ==
    /\ result_text' = o.result_text
    /\ error_message' = o.error_message
    /\ panicked' = o.panicked
    /\ birthdate' = o.birthdate
    /\ gestational_weeks' = o.gestational_weeks
    /\ gestational_days' = o.gestational_days
    /\ today' = o.today
    /\ chronological_age' = o.chronological_age
    /\ corrected_age' = o.corrected_age

(* "Calcular" clicked, or Enter in the last field: lines 247-250, 267-272 *)
Calculate ==
    /\ ~panicked
    /\ UNCHANGED <<birth_date_str, gestational_weeks_str, gestational_days_str,
                   clipboard, overflow_checks>>
    /\ \E td \in Clock :
           CalculateReturns(calculate(birth_date_str, gestational_weeks_str,
                                      gestational_days_str, td, overflow_checks))

(* "Limpar" clicked, lines 274-284 *)
Limpar ==
    /\ ~panicked
    /\ birth_date_str' = <<>>
    /\ gestational_weeks_str' = <<>>
    /\ gestational_days_str' = <<>>
    /\ result_text' = None
    /\ error_message' = None
    /\ UNCHANGED <<clipboard, call_vars, overflow_checks, panicked>>

(* "Copiar Resultado" clicked, lines 297-317: the button is shown only    *)
(* with a result; set_text stores the text or fails                       *)
CopyStored ==
    /\ ~panicked
    /\ IsSome(result_text)
    /\ IsSome(clipboard)
    /\ clipboard' = Some(Unwrap(result_text))
    /\ UNCHANGED <<birth_date_str, gestational_weeks_str, gestational_days_str,
                   result_text, error_message, call_vars, overflow_checks, panicked>>

CopyFailed ==
    /\ ~panicked
    /\ IsSome(result_text)
    /\ IsSome(clipboard)
    /\ \E e \in CopyErrors : error_message' = Some(<<"Falha ao copiar: ", e>>)
    /\ UNCHANGED <<birth_date_str, gestational_weeks_str, gestational_days_str,
                   result_text, clipboard, call_vars, overflow_checks, panicked>>

CopyUnavailable ==
    /\ ~panicked
    /\ IsSome(result_text)
    /\ clipboard = None
    /\ error_message' = Some(<<"Área de transferência não disponível.">>)
    /\ UNCHANGED <<birth_date_str, gestational_weeks_str, gestational_days_str,
                   result_text, clipboard, call_vars, overflow_checks, panicked>>

CopyResult == CopyStored \/ CopyFailed \/ CopyUnavailable

Next ==
    \/ EditBirthDate
    \/ EditWeeks
    \/ EditDays
    \/ Calculate
    \/ Limpar
    \/ CopyResult

Spec == Init /\ [][Next]_vars

----------------------------------------------------------------------------
(* Properties.  The gestational age of a claim is the pair of integers,   *)
(* its total 7 * weeks + days taken in the integers, not in i32.          *)

Bd == Unwrap(birthdate)

Td == Unwrap(today)

Gw == Unwrap(gestational_weeks)

Gd == Unwrap(gestational_days)

Chron == Unwrap(chronological_age)

Corr == Unwrap(corrected_age)

ChronReturned == IsSome(chronological_age)

CorrReturned == IsSome(corrected_age)

(* 7 * gw + gd >= bound in the integers: gw >= ceil((bound - gd) / 7).    *)
(* Nothing here leaves the 32-bit range for the days and bounds drawn.    *)
TotalAtLeast(gw, gd, bound) == gw >= (bound - gd + 6) \div 7

FullTerm == TotalAtLeast(Gw, Gd, 280)

(* birth_date + (280 - total) is a date chrono represents *)
ShiftRepresentable == TotalAtLeast(Gw, Gd, 280 - (MaxDate - Bd))

(* the corrected birth date of a preterm age with a representable shift *)
CorrectedBirthDate == Bd + (280 - (7 * Gw + Gd))

(* max(reference_date - corrected_birth_date, 0) of a preterm age *)
ClampedCorrectedDays ==
    IF TotalAtLeast(Gw, Gd, 280 - (Td - Bd))
    THEN (Td - Bd) - (280 - (7 * Gw + Gd))
    ELSE 0

(* the i32 arithmetic of lines 366-370 does not overflow and the shifted  *)
(* birth date is representable                                            *)
WithinI32 ==
    /\ ~prematurity_days(Gw, Gd, TRUE).panic
    /\ ShiftRepresentable

SameCalendar(a, b) ==
    /\ a.years = b.years
    /\ a.months = b.months
    /\ a.days = b.days

FullTermResult ==
    /\ SameCalendar(Corr, calculate_chronological_age(Bd, Td))
    /\ Corr.total_months = calculate_chronological_age(Bd, Td).total_months
    /\ Corr.weeks = calculate_chronological_age(Bd, Td).total_weeks
    /\ Corr.days_in_week = Rem(Td - Bd, 7)

(* C1: for every birth date, reference date and gestational age with      *)
(* 7 * weeks + days >= 280, calculate_corrected_age returns the years,     *)
(* months, days and total_months of calculate_chronological_age(birth,     *)
(* reference), weeks = its total_weeks and days_in_week = the signed       *)
(* remainder of (reference - birth) by 7.                                  *)
C1_FullTermEqualsChronological ==
    (CorrReturned /\ FullTerm) => FullTermResult

(* C1 for the gestational ages whose i32 arithmetic does not overflow *)
C1_WithinI32 ==
    (CorrReturned /\ FullTerm /\ WithinI32) => FullTermResult

C1_WithinI32_Witness ==
    /\ CorrReturned /\ FullTerm /\ WithinI32
    /\ Td - Bd > 7
    /\ Corr.days_in_week # 0

(* C2: for every birth date, reference date and gestational age with      *)
(* 7 * weeks + days < 280, the years, months, days and total_months of the *)
(* result are those of calculate_chronological_age(corrected_birth_date,   *)
(* reference), corrected_birth_date = birth + (280 - 7 * weeks - days),    *)
(* reference dates before the corrected birth date included.               *)
C2_PretermCalendarOfCorrectedBirth ==
    (CorrReturned /\ ~FullTerm) =>
        /\ ShiftRepresentable
        /\ SameCalendar(Corr, calculate_chronological_age(CorrectedBirthDate, Td))
        /\ Corr.total_months =
               calculate_chronological_age(CorrectedBirthDate, Td).total_months

(* C2 as the code has it, for the gestational ages whose i32 arithmetic   *)
(* does not overflow: the calendar breakdown is that of the corrected     *)
(* birth date, total_months that of the clamped day count                 *)
C2_WithinI32 ==
    (CorrReturned /\ ~FullTerm /\ WithinI32) =>
        /\ SameCalendar(Corr, calculate_chronological_age(CorrectedBirthDate, Td))
        /\ Corr.total_months >= 0
        /\ 487 * Corr.total_months <= 16 * ClampedCorrectedDays
        /\ 16 * ClampedCorrectedDays < 487 * (Corr.total_months + 1)

C2_WithinI32_Witness ==
    /\ CorrReturned /\ ~FullTerm /\ WithinI32
    /\ Td < CorrectedBirthDate
    /\ Corr.total_months = 0
    /\ calculate_chronological_age(CorrectedBirthDate, Td).total_months < 0

(* C3: for every birth date, reference date and gestational age with      *)
(* 7 * weeks + days < 280, the result has weeks >= 0, 0 <= days_in_week    *)
(* <= 6 and weeks * 7 + days_in_week = max(reference - corrected birth     *)
(* date, 0): both are 0 on or before the corrected birth date.             *)
C3_PretermClamp ==
    (CorrReturned /\ ~FullTerm) =>
        /\ Corr.weeks >= 0
        /\ Corr.days_in_week >= 0
        /\ Corr.days_in_week <= 6
        /\ Corr.weeks * 7 + Corr.days_in_week = ClampedCorrectedDays

(* C3 for the gestational ages whose i32 arithmetic does not overflow *)
C3_WithinI32 ==
    (CorrReturned /\ ~FullTerm /\ WithinI32) =>
        /\ Corr.weeks >= 0
        /\ Corr.days_in_week >= 0
        /\ Corr.days_in_week <= 6
        /\ Corr.weeks * 7 + Corr.days_in_week = ClampedCorrectedDays

C3_WithinI32_Witness ==
    /\ CorrReturned /\ ~FullTerm /\ WithinI32
    /\ Td > CorrectedBirthDate
    /\ Corr.weeks > 0
    /\ Corr.days_in_week > 0

(* C4: calculate_chronological_age(2023-01-31, 2023-03-01) returns         *)
(* years = 0, months = 0, days = 29.                                       *)
C4_BorrowDown ==
    (/\ ChronReturned
     /\ Bd = DaysFromCivil(2023, 1, 31)
     /\ Td = DaysFromCivil(2023, 3, 1)) =>
        /\ Chron.years = 0
        /\ Chron.months = 0
        /\ Chron.days = 29

(* C5 as stated: calculate_chronological_age(2020-02-29, 2021-03-01)       *)
(* returns years = 1, months = 0, days = 1.                                *)
C5_LeapYearOneDay ==
    (/\ ChronReturned
     /\ Bd = DaysFromCivil(2020, 2, 29)
     /\ Td = DaysFromCivil(2021, 3, 1)) =>
        /\ Chron.years = 1
        /\ Chron.months = 0
        /\ Chron.days = 1

(* C5 amended: calculate_chronological_age(2020-02-29, 2021-03-01) returns *)
(* years = 1, months = 0, days = 0: the month before the reference month   *)
(* is looked up with its true length, the 28 days of February 2021, and    *)
(* 1 - 29 + 28 = 0.                                                        *)
C5_LeapYear ==
    (/\ ChronReturned
     /\ Bd = DaysFromCivil(2020, 2, 29)
     /\ Td = DaysFromCivil(2021, 3, 1)) =>
        /\ day(prev_month(Td)) = 28
        /\ Chron.years = 1
        /\ Chron.months = 0
        /\ Chron.days = 0

C5_Witness ==
    /\ ChronReturned
    /\ Bd = DaysFromCivil(2020, 2, 29)
    /\ Td = DaysFromCivil(2021, 3, 1)

CorrectedNotAboveChronological ==
    /\ Corr.weeks <= Chron.total_weeks
    /\ Corr.weeks * 7 + Corr.days_in_week <= Td - Bd

(* C6: for fixed dates and gestational_days, lowering gestational_weeks    *)
(* never lowers prematurity_days, and for every gestational age the        *)
(* corrected age in weeks and in days (weeks * 7 + days_in_week) is at     *)
(* most the chronological age (total_weeks, reference - birth).            *)
C6_MonotonicShift ==
    CorrReturned =>
        /\ \A w \in GestWeeks :
               (/\ w < Gw
                /\ ~prematurity_days(w, Gd, overflow_checks).panic) =>
                   prematurity_days(w, Gd, overflow_checks).value
                       >= prematurity_days(Gw, Gd, overflow_checks).value
        /\ CorrectedNotAboveChronological

(* C6 for a birth date not after the reference date and the gestational   *)
(* ages whose i32 arithmetic does not overflow                            *)
C6_WithinI32 ==
    (CorrReturned /\ WithinI32 /\ Td >= Bd) =>
        /\ \A w \in GestWeeks :
               (/\ w < Gw
                /\ ~prematurity_days(w, Gd, TRUE).panic) =>
                   prematurity_days(w, Gd, overflow_checks).value
                       >= prematurity_days(Gw, Gd, overflow_checks).value
        /\ CorrectedNotAboveChronological

C6_WithinI32_Witness ==
    /\ CorrReturned /\ WithinI32 /\ ~FullTerm
    /\ Td > CorrectedBirthDate
    /\ Corr.weeks < Chron.total_weeks

(* C8: for every birth date, reference date and pair of i32 gestational    *)
(* weeks and days, the two functions return without failing.               *)
C8_CoreIsTotal == ~panicked

(* C9: with total_days = reference - birth of either sign, total_weeks is  *)
(* total_days / 7 truncated toward zero and total_months is                *)
(* floor(total_days * 16 / 487), rounded toward minus infinity.            *)
C9_Totals ==
    ChronReturned =>
        /\ (Td - Bd >= 0) =>
               /\ 7 * Chron.total_weeks <= Td - Bd
               /\ Td - Bd < 7 * Chron.total_weeks + 7
        /\ (Td - Bd < 0) =>
               /\ 7 * Chron.total_weeks - 7 < Td - Bd
               /\ Td - Bd <= 7 * Chron.total_weeks
        /\ 487 * Chron.total_months <= 16 * (Td - Bd)
        /\ 16 * (Td - Bd) < 487 * (Chron.total_months + 1)

(* a negative day count that is no multiple of 7: the weeks are rounded    *)
(* toward zero, the months down                                            *)
C9_Witness ==
    /\ ChronReturned
    /\ Td - Bd < -7
    /\ 7 * Chron.total_weeks > Td - Bd
    /\ 487 * Chron.total_months < 16 * (Td - Bd)

(* C10: for a reference date not before the birth date,                    *)
(* calculate_chronological_age returns years >= 0, 0 <= months <= 11 and   *)
(* 0 <= days <= 30.                                                        *)
C10_NormalisedBreakdown ==
    (ChronReturned /\ Td >= Bd) =>
        /\ Chron.years >= 0
        /\ Chron.months >= 0
        /\ Chron.months <= 11
        /\ Chron.days >= 0
        /\ Chron.days <= 30

(* C7: a call of calculate that returns leaves, when the birth date, else  *)
(* the weeks, else the days do not parse, result_text = None and the one   *)
(* message of the first field that fails as error_message; when the three  *)
(* parse, error_message = None and a result_text.                          *)
C7_Validation ==
    [][(Calculate /\ ~panicked') =>
           IF parse_from_str(birth_date_str) = None
           THEN result_text' = None /\ error_message' = Some(InvalidDate)
           ELSE IF ParseI32(gestational_weeks_str) = None
           THEN result_text' = None /\ error_message' = Some(InvalidWeeks)
           ELSE IF ParseI32(gestational_days_str) = None
           THEN result_text' = None /\ error_message' = Some(InvalidDays)
           ELSE error_message' = None /\ IsSome(result_text')]_vars

(* an earlier result was copied, and a later call found the date parsed    *)
(* and the weeks not: the result is gone, the one message is the weeks'    *)
C7_Witness ==
    /\ IsSome(clipboard)
    /\ Unwrap(clipboard) # <<>>
    /\ result_text = None
    /\ error_message = Some(InvalidWeeks)
    /\ IsSome(birthdate)
    /\ ~panicked

====
